---- MODULE Spec2Model ----
(***************************************************************************)
(* A model of the speech-to-text backend:                                  *)
(*   - the transcribe route  POST /transcribe/web  (multer, validation,    *)
(*     Deepgram call, best-effort insert into the transcriptions table);   *)
(*   - the record routes over the transcriptions table;                    *)
(*   - SpeechToTextService (the Deepgram and AssemblyAI adapters and the   *)
(*     two response formatters).                                           *)
(*                                                                         *)
(* JavaScript values are tagged records: Undefined, Null, Str, Chars, Num, *)
(* Arr and objects (k = "object").  File names and numeric strings are     *)
(* Chars, sequences of one-character strings, so that toLowerCase, split   *)
(* and the store's text-to-integer input conversion are computed; opaque   *)
(* texts (transcripts, MIME types, messages) are Str, TLA+ strings.        *)
(***************************************************************************)
EXTENDS Integers, Sequences, FiniteSets, TLC

(***************************************************************************)
(* JavaScript values                                                       *)
(***************************************************************************)
Undefined == [k |-> "undefined"]
Null == [k |-> "null"]
Str(s) == [k |-> "string", v |-> s]
Chars(s) == [k |-> "string", c |-> s]
Num(n) == [k |-> "number", v |-> n]
Arr(a) == [k |-> "array", v |-> a]

\* !v is FALSE: the value is neither undefined, null, "" nor 0.
Truthy(v) ==
    CASE v.k = "undefined" -> FALSE
      [] v.k = "null" -> FALSE
      [] v.k = "string" -> IF "c" \in DOMAIN v THEN v.c # <<>> ELSE v.v # ""
      [] v.k = "number" -> v.v # 0
      [] OTHER -> TRUE

\* a || b
OrElse(a, b) == IF Truthy(a) THEN a ELSE b

\* String.prototype.toLowerCase over the characters the file names use.
LowerChar(c) ==
    CASE c = "A" -> "a" [] c = "B" -> "b" [] c = "M" -> "m" [] c = "P" -> "p"
      [] c = "V" -> "v" [] c = "W" -> "w"
      [] OTHER -> c

toLowerCase(s) == [i \in 1..Len(s) |-> LowerChar(s[i])]

\* String.prototype.split(sep): the pieces between the separators; a string
\* without the separator is its own single piece.
RECURSIVE split(_, _)
split(s, sep) ==
    IF \A i \in 1..Len(s) : s[i] # sep
    THEN <<s>>
    ELSE LET i == CHOOSE n \in 1..Len(s) :
                      s[n] = sep /\ \A j \in 1..(n - 1) : s[j] # sep
         IN  <<SubSeq(s, 1, i - 1)>> \o split(SubSeq(s, i + 1, Len(s)), sep)

\* Array.prototype.pop(): the last element.
pop(a) == a[Len(a)]

(***************************************************************************)
(* The transcriptions table                                                *)
(***************************************************************************)
\* gen_random_uuid(): the n-th identifier the store hands out.
Uuid(n) == <<"uuid", n>>

Digit(c) ==
    CASE c = "0" -> 0 [] c = "1" -> 1 [] c = "2" -> 2 [] c = "3" -> 3
      [] c = "4" -> 4 [] c = "5" -> 5 [] c = "6" -> 6 [] c = "7" -> 7
      [] c = "8" -> 8 [] c = "9" -> 9
      [] OTHER -> -1

RECURSIVE ParseDigits(_)
ParseDigits(s) ==
    IF s = <<>> THEN 0
    ELSE 10 * ParseDigits(SubSeq(s, 1, Len(s) - 1)) + Digit(s[Len(s)])

IsDigits(s) == s # <<>> /\ \A i \in 1..Len(s) : Digit(s[i]) >= 0

\* A value written to an INTEGER column: a key JSON.stringify drops
\* (undefined) and null give NULL; an integer is kept (the integers of this
\* model are all within the column's 32 bits); a string of digits is read as
\* the integer it spells (up to nine digits, which always fit); anything
\* else is an error.
IntegerColumn(v) ==
    CASE v.k \in {"undefined", "null"} -> Null
      [] v.k = "number" -> v
      [] v.k = "string" ->
            IF "c" \in DOMAIN v /\ IsDigits(v.c) /\ Len(v.c) <= 9
            THEN Num(ParseDigits(v.c))
            ELSE [k |-> "error"]
      [] OTHER -> [k |-> "error"]

\* A value written to a TEXT column.
TextColumn(v) ==
    CASE v.k \in {"undefined", "null"} -> Null
      [] v.k = "string" -> v
      [] OTHER -> [k |-> "error"]

\* A value written to a TEXT NOT NULL column.
TextNotNullColumn(v) == IF TextColumn(v) = Null THEN [k |-> "error"] ELSE TextColumn(v)

\* The row the table keeps for an inserted object, before the id is given.
Columns(o) ==
    [filename |-> TextNotNullColumn(o.filename),
     original_text |-> TextNotNullColumn(o.original_text),
     file_size |-> IntegerColumn(o.file_size),
     file_type |-> TextColumn(o.file_type),
     processing_time_ms |-> IntegerColumn(o.processing_time_ms)]

ColumnNames == {"filename", "original_text", "file_size", "file_type", "processing_time_ms"}

Rejected(row) == \E c \in ColumnNames : row[c].k = "error"

WithId(row, id) ==
    [id |-> id, filename |-> row.filename, original_text |-> row.original_text,
     file_size |-> row.file_size, file_type |-> row.file_type,
     processing_time_ms |-> row.processing_time_ms]

(***************************************************************************)
(* State                                                                   *)
(***************************************************************************)
VARIABLES
    env,            \* process.env.DEEPGRAM_API_KEY
    rows,           \* the transcriptions table
    nextId,         \* how many ids the store has handed out, plus one
    tpc,            \* per transcribe request: idle, provider, insert, done
    file,           \* per transcribe request: the upload it carries
    inflight,       \* per transcribe request: what the suspended handler holds
    tres,           \* per transcribe request: the response sent
    providerCalls,  \* per transcribe request: axios.post calls issued
    insertCalls,    \* per transcribe request: inserts issued
    reply,          \* per transcribe request: what axios.post settled with
    callTime,       \* per transcribe request: ms from axios.post to its response
    settled,        \* per transcribe request: how the awaited insert settled
    req,            \* the last record-route request served
    resp,           \* the response it got
    created,        \* POSTed bodies by id, until the id is updated or deleted
    service,        \* SpeechToTextService: the two keys its constructor read
    called,         \* the adapter call: the method called, if any
    apc,            \* the adapter call: where it stands
    statusChecks,   \* the adapter call: status requests issued
    statusLog,      \* the adapter call: status responses received, in order
    rejected,       \* the adapter call: the request that was rejected, if any
    outcome         \* the adapter call: the value returned or the error thrown

\* the variables of the transcribe route
tvars == <<env, tpc, file, inflight, tres, providerCalls, insertCalls, reply, callTime,
           settled>>
\* the variables of the record routes
cvars == <<req, resp, created>>
\* the variables of SpeechToTextService
avars == <<service, called, apc, statusChecks, statusLog, rejected, outcome>>

(***************************************************************************)
(* POST /transcribe/web                                                    *)
(***************************************************************************)
Requests == {"r1", "r2"}

\* multer's limits.fileSize
fileSize == 1024 * 1024 * 1024

allowedFormats ==
    {<<"w", "a", "v">>, <<"m", "p", "3">>, <<"m", "4", "a">>,
     <<"f", "l", "a", "c">>, <<"o", "g", "g">>, <<"w", "e", "b", "m">>}

FileNames ==
    {<<"s", ".", "w", "a", "v">>,                       \* s.wav
     <<"A", ".", "B", ".", "M", "P", "3">>,             \* A.B.MP3
     <<"w", "a", "v">>,                                 \* wav (no dot)
     <<"a", ".", "m", "p", "3", ".", "t", "x", "t">>,   \* a.mp3.txt
     <<"m", "e", "m", "o">>}                            \* memo (no dot)

NoFile == [k |-> "undefined"]

Uploads ==
    [originalname : FileNames,
     size : {10240, fileSize, fileSize + 1},
     mimetype : {Str("audio/wav"), Str("")}]

NoResponse == [status |-> 0]
Json(status, body) == [status |-> status, body |-> body]

\* upload.single("audio"): req.file, or the error multer passes to next().
upload_single(f) ==
    IF f = NoFile THEN [error |-> "none", file |-> Undefined]
    ELSE IF f.size > fileSize THEN [error |-> "LIMIT_FILE_SIZE", file |-> Undefined]
    ELSE [error |-> "none", file |-> f]

\* Mutant of MulterErrorResponse: the error falls through to a handler that
\* answers every error with 500.
MulterErrorResponse_Unmapped == Json(500, [error |-> "Something went wrong!"])

\* What the application answers when multer passes LIMIT_FILE_SIZE to next():
\* the route handler is skipped and the application's error handling replies.
MulterErrorResponse == Json(413, [error |-> "File too large"])

fileExt(f) == pop(split(toLowerCase(f.originalname), "."))

\* Mutant of Validate: the check of the API key is missing.
Validate_NoKeyCheck(f) ==
    IF f = Undefined
    THEN Json(400, [error |-> "No audio file provided"])
    ELSE IF f.size > 1024 * 1024 * 1024
    THEN Json(413, [error |-> "File too large. Maximum size is 1GB."])
    ELSE IF fileExt(f) \notin allowedFormats
    THEN Json(400, [error |->
        "Invalid audio format. Supported formats: MP3, WAV, M4A, FLAC, OGG, WEBM"])
    ELSE NoResponse

\* The handler's checks before the provider call: the response of the first
\* failing check, or NoResponse when all pass.
Validate(f) ==
    IF f = Undefined
    THEN Json(400, [error |-> "No audio file provided"])
    ELSE IF f.size > 1024 * 1024 * 1024
    THEN Json(413, [error |-> "File too large. Maximum size is 1GB."])
    ELSE IF fileExt(f) \notin allowedFormats
    THEN Json(400, [error |->
        "Invalid audio format. Supported formats: MP3, WAV, M4A, FLAC, OGG, WEBM"])
    ELSE IF ~Truthy(env)
    THEN Json(500, [error |-> "Deepgram API key not configured"])
    ELSE NoResponse

getContentType(filename) ==
    LET ext == pop(split(toLowerCase(filename), "."))
    IN  CASE ext = <<"m", "p", "3">> -> "audio/mpeg"
          [] ext = <<"w", "a", "v">> -> "audio/wav"
          [] ext = <<"m", "4", "a">> -> "audio/mp4"
          [] ext = <<"f", "l", "a", "c">> -> "audio/flac"
          [] ext = <<"o", "g", "g">> -> "audio/ogg"
          [] ext = <<"w", "e", "b", "m">> -> "audio/webm"
          [] OTHER -> "audio/mpeg"

\* The request arrives: multer, then the handler up to its first await.
Receive(r, f) ==
    /\ tpc[r] = "idle"
    /\ file' = [file EXCEPT ![r] = f]
    /\ LET m == upload_single(f)
           v == Validate(m.file)
       IN  IF m.error # "none"
           THEN /\ tres' = [tres EXCEPT ![r] = MulterErrorResponse]
                /\ tpc' = [tpc EXCEPT ![r] = "done"]
                /\ UNCHANGED <<inflight, providerCalls>>
           ELSE IF v # NoResponse
           THEN /\ tres' = [tres EXCEPT ![r] = v]
                /\ tpc' = [tpc EXCEPT ![r] = "done"]
                /\ UNCHANGED <<inflight, providerCalls>>
           ELSE /\ providerCalls' = [providerCalls EXCEPT ![r] = @ + 1]
                /\ inflight' = [inflight EXCEPT ![r] =
                        [contentType |-> getContentType(f.originalname)]]
                /\ tpc' = [tpc EXCEPT ![r] = "provider"]
                /\ UNCHANGED tres
    /\ UNCHANGED <<env, rows, nextId, insertCalls, reply, callTime, settled, cvars, avars>>

(***************************************************************************)
(* The Deepgram reply and the rest of the handler                          *)
(***************************************************************************)
Alternative(t, c) == [k |-> "object", transcript |-> t, confidence |-> c]
Channel(alts) == [k |-> "object", alternatives |-> alts]
Results(ch, md) == [k |-> "object", channels |-> ch, metadata |-> md]
Data(res) == [k |-> "object", results |-> res]
Metadata(d) == [k |-> "object", duration |-> d]

\* Confidence is in hundredths (95 is 0.95).
ProviderData ==
    {Data(Undefined),
     Data(Results(Arr(<<>>), Undefined)),
     Data(Results(Arr(<<Channel(Undefined)>>), Undefined)),
     Data(Results(Arr(<<Channel(Arr(<<>>))>>), Undefined)),
     Data(Results(Arr(<<Channel(Arr(<<Alternative(Str("hello world"), Num(95)),
                                      Alternative(Str("hollow word"), Num(60))>>))>>),
                  Metadata(Num(3)))),
     Data(Results(Arr(<<Channel(Arr(<<Alternative(Str(""), Num(0))>>))>>), Undefined)),
     Data(Results(Arr(<<Channel(Arr(<<Alternative(Undefined, Undefined)>>))>>),
                  Undefined))}

\* a rejected axios call: error.message and error.response
AxiosError(msg, response) == [message |-> msg, response |-> response]
HttpResponse(status, data) == [k |-> "object", status |-> status, data |-> data]

ProviderErrors ==
    {AxiosError("Network Error", Undefined),
     AxiosError("Request failed with status code 401", HttpResponse(401, Undefined)),
     AxiosError("Request failed with status code 413", HttpResponse(413, Undefined)),
     AxiosError("Request failed with status code 400",
                HttpResponse(400, [k |-> "object", error |-> Str("Bad Request")])),
     AxiosError("Request failed with status code 503",
                HttpResponse(503, [k |-> "object", error |-> Str("Service Unavailable")])),
     AxiosError("Request failed with status code 500", HttpResponse(500, Undefined))}

\* arr[i] of a JavaScript array (indices from 0)
At(arr, i) == IF i + 1 <= Len(arr.v) THEN arr.v[i + 1] ELSE Undefined

\* The handler's checks of response.data: the response of the first failing
\* check, or NoResponse when there is a first alternative.
CheckResults(data) ==
    LET results == data.results
    IN  IF \/ ~Truthy(results)
           \/ ~Truthy(results.channels)
           \/ ~Truthy(At(results.channels, 0))
        THEN Json(500, [error |-> "No transcription results received"])
        ELSE LET alternatives == At(results.channels, 0).alternatives
             IN  IF ~Truthy(alternatives) \/ Len(alternatives.v) = 0
                 THEN Json(500, [error |-> "No transcription alternatives found"])
                 ELSE NoResponse

bestAlternative(data) == At(At(data.results.channels, 0).alternatives, 0)

\* results.metadata?.duration || null
Duration(results) ==
    IF results.metadata = Undefined THEN Null
    ELSE OrElse(results.metadata.duration, Null)

Transcription(data) ==
    [text |-> bestAlternative(data).transcript,
     confidence |-> bestAlternative(data).confidence,
     language |-> Str("en-US"),
     duration |-> Duration(data.results)]

\* The object the handler inserts.
InsertObject(f, data, contentType, processingTime) ==
    [filename |-> Chars(f.originalname),
     original_text |-> bestAlternative(data).transcript,
     file_size |-> Num(f.size),
     file_type |-> OrElse(f.mimetype, Str(contentType)),
     processing_time_ms |-> Num(processingTime)]

\* The catch block's response to a thrown error.
CatchResponse(error) ==
    LET response == error.response
        data == IF response = Undefined THEN Undefined ELSE response.data
        dataError == IF data = Undefined THEN Undefined ELSE data.error
        errorMessage ==
            IF response # Undefined /\ response.status = 401
            THEN "Invalid API key. Please check your Deepgram credentials."
            ELSE IF response # Undefined /\ response.status = 413
            THEN "Audio file too large. Please use a smaller file."
            ELSE IF response # Undefined /\ response.status = 400
            THEN "Invalid audio format. Please use MP3, WAV, M4A, or FLAC."
            ELSE IF Truthy(dataError)
            THEN dataError.v
            ELSE "Transcription failed"
    IN  Json(500, [error |-> errorMessage, message |-> error.message, details |-> data])

\* The response after the insert settled with {data, error}.
SuccessResponse(transcription, savedTranscription, saveError) ==
    Json(200, [success |-> TRUE,
               transcription |-> transcription,
               service |-> "deepgram",
               saved |-> ~Truthy(saveError),
               transcription_id |->
                   IF savedTranscription = Null THEN Undefined
                   ELSE savedTranscription.id])

\* insert([o]).select().single(): the row with its new id, or the error of a
\* violated column constraint.
Insert(o) ==
    IF Rejected(Columns(o))
    THEN [data |-> Null,
          error |-> [k |-> "object", message |-> "violates a column constraint"],
          rows |-> rows, nextId |-> nextId]
    ELSE [data |-> WithId(Columns(o), Uuid(nextId)),
          error |-> Null,
          rows |-> rows \cup {WithId(Columns(o), Uuid(nextId))},
          nextId |-> nextId + 1]

\* The store could not serve the request and says so in the returned error.
Down ==
    [data |-> Null, error |-> [k |-> "object", message |-> "store unavailable"],
     rows |-> rows, nextId |-> nextId]

\* Date.now() - startTime, startTime read on the line before.
ProcessingTimes == {0, 1}

\* How long the provider takes to answer, in ms.
Latencies == {1, 1500}

\* axios.post resolved, latency ms after it was issued: the handler runs from
\* line 229 to the insert it awaits.
ProviderResolve(r, data, latency) ==
    /\ tpc[r] = "provider"
    /\ reply' = [reply EXCEPT ![r] = data]
    /\ callTime' = [callTime EXCEPT ![r] = latency]
    /\ IF CheckResults(data) # NoResponse
       THEN /\ tres' = [tres EXCEPT ![r] = CheckResults(data)]
            /\ tpc' = [tpc EXCEPT ![r] = "done"]
            /\ UNCHANGED <<inflight, insertCalls>>
       ELSE \E processingTime \in ProcessingTimes :
            /\ inflight' = [inflight EXCEPT ![r] =
                    [transcription |-> Transcription(data),
                     object |-> InsertObject(file[r], data, inflight[r].contentType,
                                             processingTime)]]
            /\ insertCalls' = [insertCalls EXCEPT ![r] = @ + 1]
            /\ tpc' = [tpc EXCEPT ![r] = "insert"]
            /\ UNCHANGED tres
    /\ UNCHANGED <<env, rows, nextId, file, providerCalls, settled, cvars, avars>>

\* axios.post rejected: the catch block answers.
ProviderReject(r, error) ==
    /\ tpc[r] = "provider"
    /\ reply' = [reply EXCEPT ![r] = error]
    /\ tres' = [tres EXCEPT ![r] = CatchResponse(error)]
    /\ tpc' = [tpc EXCEPT ![r] = "done"]
    /\ UNCHANGED <<env, rows, nextId, file, inflight, providerCalls, insertCalls, callTime,
                   settled,
                   cvars, avars>>

\* The awaited insert resolved with {data, error}: the handler answers.
InsertResolve(r, served) ==
    /\ tpc[r] = "insert"
    /\ LET res == IF served THEN Insert(inflight[r].object) ELSE Down
       IN  /\ rows' = res.rows
           /\ nextId' = res.nextId
           /\ settled' = [settled EXCEPT ![r] =
                   IF Truthy(res.error) THEN "error" ELSE "data"]
           /\ tres' = [tres EXCEPT ![r] =
                   SuccessResponse(inflight[r].transcription, res.data, res.error)]
    /\ tpc' = [tpc EXCEPT ![r] = "done"]
    /\ UNCHANGED <<env, file, inflight, providerCalls, insertCalls, reply, callTime, cvars,
                   avars>>

\* The awaited insert rejected (the call itself failed): the catch block answers.
InsertReject(r) ==
    /\ tpc[r] = "insert"
    /\ settled' = [settled EXCEPT ![r] = "rejected"]
    /\ tres' = [tres EXCEPT ![r] = CatchResponse(AxiosError("fetch failed", Undefined))]
    /\ tpc' = [tpc EXCEPT ![r] = "done"]
    /\ UNCHANGED <<env, rows, nextId, file, inflight, providerCalls, insertCalls, reply,
                   callTime,
                   cvars, avars>>

(***************************************************************************)
(* The record routes: GET /, GET /:id, POST /, PUT /:id, DELETE /:id       *)
(***************************************************************************)
MaxRows == 2

StoreError(msg) == [k |-> "object", message |-> msg]

\* The id column is a UUID: a path parameter that is none cannot be compared.
IsUuid(id) == id[1] = "uuid"
NotAUuid == <<"text", 0>>

\* :id as clients send it: ids the store handed out or may yet, one it never
\* will within the bound, and one that is no UUID.
IdInputs == {Uuid(n) : n \in 1..(MaxRows + 1)} \cup {NotAUuid}

\* select("*").order("created_at", {ascending: false}): created_at is NOW()
\* at the insert, so the rows come latest id first.
RECURSIVE Ordered(_)
Ordered(S) ==
    IF S = {} THEN <<>>
    ELSE LET latest == CHOOSE x \in S : \A y \in S : y.id[2] <= x.id[2]
         IN  <<latest>> \o Ordered(S \ {latest})

\* select("*").eq("id", id).single(): exactly one row, or an error.
SelectSingle(id) ==
    IF ~IsUuid(id)
    THEN [data |-> Null, error |-> StoreError("invalid input syntax for type uuid")]
    ELSE IF \A x \in rows : x.id # id
    THEN [data |-> Null,
          error |-> StoreError("JSON object requested, multiple (or no) rows returned")]
    ELSE [data |-> CHOOSE x \in rows : x.id = id, error |-> Null]

\* The row after update(o): the keys o gives (JSON.stringify drops the
\* undefined ones) are written, the other columns and the id stay.
Patched(row, o) ==
    [id |-> row.id,
     filename |-> IF o.filename = Undefined THEN row.filename
                  ELSE TextNotNullColumn(o.filename),
     original_text |-> IF o.original_text = Undefined THEN row.original_text
                       ELSE TextNotNullColumn(o.original_text),
     file_size |-> IF o.file_size = Undefined THEN row.file_size
                   ELSE IntegerColumn(o.file_size),
     file_type |-> IF o.file_type = Undefined THEN row.file_type
                   ELSE TextColumn(o.file_type),
     processing_time_ms |-> IF o.processing_time_ms = Undefined
                            THEN row.processing_time_ms
                            ELSE IntegerColumn(o.processing_time_ms)]

\* update(o).eq("id", id).select().single(): the updated row, or an error
\* (no UUID, no key to set, no such row, a violated column constraint).
Update(id, o) ==
    IF ~IsUuid(id)
    THEN [data |-> Null, error |-> StoreError("invalid input syntax for type uuid"),
          rows |-> rows]
    ELSE IF (\A c \in ColumnNames : o[c] = Undefined) \/ (\A x \in rows : x.id # id)
    THEN [data |-> Null,
          error |-> StoreError("JSON object requested, multiple (or no) rows returned"),
          rows |-> rows]
    ELSE LET old == CHOOSE x \in rows : x.id = id
         IN  IF Rejected(Patched(old, o))
             THEN [data |-> Null, error |-> StoreError("violates a column constraint"),
                   rows |-> rows]
             ELSE [data |-> Patched(old, o), error |-> Null,
                   rows |-> (rows \ {old}) \cup {Patched(old, o)}]

\* delete().eq("id", id): the rows with that id go; none is no error.
Delete(id) ==
    IF ~IsUuid(id)
    THEN [data |-> Null, error |-> StoreError("invalid input syntax for type uuid"),
          rows |-> rows]
    ELSE [data |-> Null, error |-> Null, rows |-> {x \in rows : x.id # id}]

Body(fn, text, size, type, ms) ==
    [filename |-> fn, original_text |-> text, file_size |-> size,
     file_type |-> type, processing_time_ms |-> ms]

AWav == Chars(<<"a", ".", "w", "a", "v">>)

\* req.body as clients send it to POST /
Bodies ==
    {Body(AWav, Str("hi"), Num(10240), Str("audio/wav"), Num(120)),
     Body(AWav, Str("hi"), Undefined, Undefined, Undefined),
     Body(AWav, Str("hi"), Chars(<<"4", "2">>), Str("audio/wav"), Null),
     Body(AWav, Str("hi"), Chars(<<"4", "k">>), Undefined, Undefined),
     Body(Undefined, Str("hi"), Num(10240), Undefined, Undefined),
     Body(AWav, Str(""), Undefined, Undefined, Undefined),
     Body(Undefined, Undefined, Undefined, Undefined, Undefined)}

\* req.body as clients send it to PUT /:id
Patches ==
    {Body(Undefined, Str("bye"), Undefined, Undefined, Undefined),
     Body(Chars(<<>>), Str(""), Null, Null, Num(0)),
     Body(Undefined, Undefined, Undefined, Undefined, Undefined)}

NoId == <<"none", 0>>

\* The request served last: the route, :id, whether the table held a row with
\* that id when the request arrived, whether the store was up, and whether it
\* returned an error.
Request(op, id, served, error) ==
    [op |-> op, id |-> id, present |-> \E x \in rows : x.id = id,
     served |-> served, error |-> error]

\* router.get("/")
GetAll(served) ==
    /\ req' = Request("LIST", NoId, served, ~served)
    /\ resp' = IF served THEN Json(200, Ordered(rows))
               ELSE Json(500, [error |-> "Failed to fetch transcriptions"])
    /\ UNCHANGED <<rows, nextId, created, tvars, avars>>

\* The response of router.get("/:id") to what the store returned.
GetResponse(res) ==
    IF Truthy(res.error)
    THEN Json(500, [error |-> "Failed to fetch transcription"])
    ELSE IF res.data = Null
    THEN Json(404, [error |-> "Transcription not found"])
    ELSE Json(200, res.data)

\* router.get("/:id")
GetById(id, served) ==
    LET res == IF served THEN SelectSingle(id) ELSE Down
    IN  /\ req' = Request("GET", id, served, Truthy(res.error))
        /\ resp' = GetResponse(res)
        /\ UNCHANGED <<rows, nextId, created, tvars, avars>>

\* The check router.post("/") makes of the body.
CreateRejects(body) == ~Truthy(body.filename) \/ ~Truthy(body.original_text)

\* Mutant of CreateObject: file_type is left out of the inserted object.
CreateObject_DropsFileType(body) ==
    [filename |-> body.filename,
     original_text |-> body.original_text,
     file_size |-> body.file_size,
     file_type |-> Undefined,
     processing_time_ms |-> body.processing_time_ms]

\* The object router.post("/") inserts.
CreateObject(body) ==
    [filename |-> body.filename,
     original_text |-> body.original_text,
     file_size |-> body.file_size,
     file_type |-> body.file_type,
     processing_time_ms |-> body.processing_time_ms]

\* router.post("/")
Create(body, served) ==
    /\ nextId <= MaxRows
    /\ IF CreateRejects(body)
       THEN /\ req' = Request("POST", NoId, served, FALSE)
            /\ resp' = Json(400, [error |-> "Filename and original_text are required"])
            /\ UNCHANGED <<rows, nextId, created>>
       ELSE LET res == IF served THEN Insert(CreateObject(body)) ELSE Down
            IN  /\ req' = Request("POST", NoId, served, Truthy(res.error))
                /\ rows' = res.rows
                /\ nextId' = res.nextId
                /\ IF Truthy(res.error)
                   THEN /\ resp' = Json(500, [error |-> "Failed to create transcription"])
                        /\ UNCHANGED created
                   ELSE /\ resp' = Json(201, res.data)
                        /\ created' = created \cup {<<res.data.id, body>>}
    /\ UNCHANGED <<tvars, avars>>

\* The response of router.put("/:id") to what the store returned.
PutResponse(res) ==
    IF Truthy(res.error)
    THEN Json(500, [error |-> "Failed to update transcription"])
    ELSE IF res.data = Null
    THEN Json(404, [error |-> "Transcription not found"])
    ELSE Json(200, res.data)

\* The object router.put("/:id") writes.
UpdateObject(body) ==
    [filename |-> body.filename,
     original_text |-> body.original_text,
     file_size |-> body.file_size,
     file_type |-> body.file_type,
     processing_time_ms |-> body.processing_time_ms]

\* router.put("/:id")
Put(id, body, served) ==
    LET res == IF served THEN Update(id, UpdateObject(body)) ELSE Down
    IN  /\ req' = Request("PUT", id, served, Truthy(res.error))
        /\ rows' = res.rows
        /\ resp' = PutResponse(res)
        /\ created' = IF Truthy(res.error) THEN created
                      ELSE {p \in created : p[1] # id}
        /\ UNCHANGED <<nextId, tvars, avars>>

\* Mutant of DeleteResponse: the handler answers 404 when the store returns
\* no data, as the handlers of GET /:id and PUT /:id do.
DeleteResponse_Strict(res) ==
    IF Truthy(res.error)
    THEN Json(500, [error |-> "Failed to delete transcription"])
    ELSE IF res.data = Null
    THEN Json(404, [error |-> "Transcription not found"])
    ELSE Json(200, [message |-> "Transcription deleted successfully"])

\* The response of router.delete("/:id") to what the store returned.
DeleteResponse(res) ==
    IF Truthy(res.error)
    THEN Json(500, [error |-> "Failed to delete transcription"])
    ELSE Json(200, [message |-> "Transcription deleted successfully"])

\* router.delete("/:id")
DeleteById(id, served) ==
    LET res == IF served THEN Delete(id) ELSE Down
    IN  /\ req' = Request("DELETE", id, served, Truthy(res.error))
        /\ rows' = res.rows
        /\ resp' = DeleteResponse(res)
        /\ created' = IF Truthy(res.error) THEN created
                      ELSE {p \in created : p[1] # id}
        /\ UNCHANGED <<nextId, tvars, avars>>

(***************************************************************************)
(* SpeechToTextService                                                     *)
(***************************************************************************)
MaxPolls == 3

\* obj.field of a JavaScript object: undefined when the object has no such key
Get(obj, field) == IF field \in DOMAIN obj THEN obj[field] ELSE Undefined

\* obj?.field
Opt(obj, field) == IF obj \in {Undefined, Null} THEN Undefined ELSE Get(obj, field)

\* A function's way out: the value it returns, or the message of the Error it
\* throws.  A message is the sequence of the pieces its template string joins.
Return(value) == [ok |-> TRUE, value |-> value]
Throw(message) == [ok |-> FALSE, message |-> message]

\* `${v}` of a template string
Text(v) == IF v.k = "string" THEN v.v ELSE v.k

formatDeepgramResponse(data) ==
    LET results == Get(data, "results")
    IN  IF \/ ~Truthy(results)
           \/ ~Truthy(Get(results, "channels"))
           \/ ~Truthy(At(Get(results, "channels"), 0))
        THEN Throw(<<"Invalid Deepgram response format">>)
        ELSE LET alternatives == Get(At(Get(results, "channels"), 0), "alternatives")
             IN  IF ~Truthy(alternatives) \/ Len(alternatives.v) = 0
                 THEN Throw(<<"No transcription alternatives found">>)
                 ELSE LET best == At(alternatives, 0)
                      IN  Return(
                            [text |-> Get(best, "transcript"),
                             confidence |-> Get(best, "confidence"),
                             words |-> OrElse(Get(best, "words"), Arr(<<>>)),
                             language |-> OrElse(Opt(Get(data, "metadata"), "language"),
                                                 Str("en-US")),
                             duration |-> OrElse(Opt(Get(data, "metadata"), "duration"),
                                                 Null),
                             utterances |-> OrElse(Opt(Get(best, "paragraphs"),
                                                       "paragraphs"), Arr(<<>>)),
                             speaker_labels |-> OrElse(Get(best, "speakers"), Null)])

formatAssemblyAIResponse(data) ==
    Return([text |-> Get(data, "text"),
            confidence |-> Get(data, "confidence"),
            words |-> OrElse(Get(data, "words"), Arr(<<>>)),
            language |-> OrElse(Get(data, "language_code"), Str("en")),
            duration |-> OrElse(Get(data, "audio_duration"), Null),
            utterances |-> OrElse(Get(data, "utterances"), Arr(<<>>)),
            speaker_labels |-> OrElse(Get(data, "speaker_labels"), Null),
            chapters |-> OrElse(Get(data, "chapters"), Arr(<<>>)),
            entities |-> OrElse(Get(data, "entities"), Arr(<<>>))])

\* the catch block of transcribeWithDeepgram
DeepgramCatch(message) == Throw(<<"Deepgram transcription failed: ">> \o message)

\* Mutant of AssemblyAICatch: the error is logged and not thrown again.
AssemblyAICatch_Swallows(message) == Return(Null)

\* the catch block of transcribeWithAssemblyAI
AssemblyAICatch(message) == Throw(<<"AssemblyAI transcription failed: ">> \o message)

\* What a try block hands on: a returned value, or the catch block's error.
Guarded(result, catch) == IF result.ok THEN result ELSE catch

Word(w) == [k |-> "object", word |-> w]

\* response.data of Deepgram, as the service reads it
DeepgramData ==
    {[k |-> "object"],
     [k |-> "object", results |-> [k |-> "object", channels |-> Arr(<<>>)]],
     [k |-> "object",
      results |-> [k |-> "object",
                   channels |-> Arr(<<[k |-> "object", alternatives |-> Arr(<<>>)]>>)]],
     [k |-> "object",
      metadata |-> [k |-> "object", duration |-> Num(3), language |-> Str("en-GB")],
      results |-> [k |-> "object",
                   channels |-> Arr(<<[k |-> "object", alternatives |-> Arr(<<
                       [k |-> "object", transcript |-> Str("hello world"),
                        confidence |-> Num(95), words |-> Arr(<<Word("hello")>>),
                        speakers |-> Num(2)],
                       [k |-> "object", transcript |-> Str("hollow word"),
                        confidence |-> Num(60)]>>)]>>)]],
     [k |-> "object",
      results |-> [k |-> "object",
                   channels |-> Arr(<<[k |-> "object", alternatives |-> Arr(<<
                       [k |-> "object", transcript |-> Str("hello world")]>>)]>>)]],
     [k |-> "object",
      metadata |-> [k |-> "object", duration |-> Num(3)],
      results |-> [k |-> "object",
                   channels |-> Arr(<<[k |-> "object", alternatives |-> Arr(<<
                       [k |-> "object", confidence |-> Num(95),
                        words |-> Arr(<<Word("hello")>>)]>>)]>>)]]}

\* statusResponse.data of AssemblyAI for a job that is not over
Pending == {[k |-> "object", status |-> Str("queued")],
            [k |-> "object", status |-> Str("processing")]}

\* statusResponse.data of AssemblyAI for a job that is over
Terminal ==
    {[k |-> "object", status |-> Str("completed"), text |-> Str("hello world"),
      confidence |-> Num(95), words |-> Arr(<<Word("hello")>>),
      language_code |-> Str("en_us"), audio_duration |-> Num(3)],
     [k |-> "object", status |-> Str("completed"), text |-> Str("good bye")],
     [k |-> "object", status |-> Str("completed"), confidence |-> Num(95),
      words |-> Arr(<<Word("hello")>>), audio_duration |-> Num(3)],
     [k |-> "object", status |-> Str("error"), error |-> Str("Download error")],
     [k |-> "object", status |-> Str("error"), error |-> Str("Audio too short")]}

RequestErrors == {<<"Network Error">>, <<"Request failed with status code 401">>}

Settle(result) ==
    /\ outcome' = result
    /\ apc' = IF result.ok THEN "returned" ELSE "thrown"

\* transcribeWithDeepgram is called: the key check, then axios(config).
CallDeepgram ==
    /\ apc = "idle"
    /\ called' = "deepgram"
    /\ IF ~Truthy(service.deepgramApiKey)
       THEN Settle(Throw(<<"Deepgram API key not configured">>))
       ELSE apc' = "deepgram" /\ UNCHANGED outcome
    /\ UNCHANGED <<rows, nextId, tvars, cvars, service, statusChecks, statusLog, rejected>>

\* axios(config) resolved: the response is formatted inside the try block.
DeepgramResolve(data) ==
    /\ apc = "deepgram"
    /\ Settle(Guarded(formatDeepgramResponse(data),
                      DeepgramCatch(formatDeepgramResponse(data).message)))
    /\ UNCHANGED <<rows, nextId, tvars, cvars, service, called, statusChecks, statusLog, rejected>>

\* axios(config) rejected
DeepgramReject(message) ==
    /\ apc = "deepgram"
    /\ rejected' = apc
    /\ Settle(DeepgramCatch(message))
    /\ UNCHANGED <<rows, nextId, tvars, cvars, service, called, statusChecks, statusLog>>

\* transcribeWithAssemblyAI is called: the key check, then the upload.
CallAssemblyAI ==
    /\ apc = "idle"
    /\ called' = "assemblyai"
    /\ IF ~Truthy(service.assemblyaiApiKey)
       THEN Settle(Throw(<<"AssemblyAI API key not configured">>))
       ELSE apc' = "upload" /\ UNCHANGED outcome
    /\ UNCHANGED <<rows, nextId, tvars, cvars, service, statusChecks, statusLog, rejected>>

\* The upload resolved: the job is submitted.
UploadResolve ==
    /\ apc = "upload"
    /\ apc' = "submit"
    /\ UNCHANGED <<rows, nextId, tvars, cvars, service, called, statusChecks, statusLog, rejected, outcome>>

\* The submission resolved: the loop is entered and asks for the status.
SubmitResolve ==
    /\ apc = "submit"
    /\ apc' = "status"
    /\ statusChecks' = statusChecks + 1
    /\ UNCHANGED <<rows, nextId, tvars, cvars, service, called, statusLog, rejected, outcome>>

\* Mutant of LoopStep: the completed status is compared with another word.
LoopStep_MissesCompleted(data) ==
    IF Get(data, "status") = Str("complete") THEN "break"
    ELSE IF Get(data, "status") = Str("error") THEN "throw"
    ELSE "again"

\* What the loop body does with statusResponse.data: leave the loop with the
\* transcript, throw, or go round again.
LoopStep(data) ==
    IF Get(data, "status") = Str("completed") THEN "break"
    ELSE IF Get(data, "status") = Str("error") THEN "throw"
    ELSE "again"

\* A status request resolved.
StatusResolve(data) ==
    /\ apc = "status"
    /\ statusLog' = Append(statusLog, data)
    /\ CASE LoopStep(data) = "break" -> Settle(formatAssemblyAIResponse(data))
         [] LoopStep(data) = "throw" ->
                Settle(AssemblyAICatch(<<"AssemblyAI transcription failed: ",
                                         Text(Get(data, "error"))>>))
         [] OTHER -> apc' = "wait" /\ UNCHANGED outcome
    /\ UNCHANGED <<rows, nextId, tvars, cvars, service, called, statusChecks, rejected>>

\* The one-second timer fired: the loop asks for the status again.
PollAgain ==
    /\ apc = "wait"
    /\ statusChecks < MaxPolls
    /\ apc' = "status"
    /\ statusChecks' = statusChecks + 1
    /\ UNCHANGED <<rows, nextId, tvars, cvars, service, called, statusLog, rejected, outcome>>

\* The upload, the submission or a status request rejected.
AssemblyAIReject(message) ==
    /\ apc \in {"upload", "submit", "status"}
    /\ rejected' = apc
    /\ Settle(AssemblyAICatch(message))
    /\ UNCHANGED <<rows, nextId, tvars, cvars, service, called, statusChecks, statusLog>>

(***************************************************************************)
(* Specifications                                                          *)
(***************************************************************************)
ApiKeys == {Undefined, Str("dg-key")}

Init ==
    /\ env \in ApiKeys
    /\ rows = {}
    /\ nextId = 1
    /\ tpc = [r \in Requests |-> "idle"]
    /\ file = [r \in Requests |-> NoFile]
    /\ inflight = [r \in Requests |-> Undefined]
    /\ tres = [r \in Requests |-> NoResponse]
    /\ providerCalls = [r \in Requests |-> 0]
    /\ insertCalls = [r \in Requests |-> 0]
    /\ reply = [r \in Requests |-> Undefined]
    /\ callTime = [r \in Requests |-> 0]
    /\ settled = [r \in Requests |-> "pending"]
    /\ req = [op |-> "NONE", id |-> NoId, present |-> FALSE, served |-> TRUE,
              error |-> FALSE]
    /\ resp = NoResponse
    /\ created = {}
    /\ service \in [deepgramApiKey : {env}, assemblyaiApiKey : {Undefined, Str("aai-key")}]
    /\ called = "none"
    /\ apc = "idle"
    /\ statusChecks = 0
    /\ statusLog = <<>>
    /\ rejected = "none"
    /\ outcome = Undefined

\* transcribe requests, in flight together
Next ==
    \E r \in Requests :
        \/ \E f \in Uploads \cup {NoFile} : Receive(r, f)
        \/ \E data \in ProviderData, latency \in Latencies :
               ProviderResolve(r, data, latency)
        \/ \E error \in ProviderErrors : ProviderReject(r, error)
        \/ \E served \in BOOLEAN : InsertResolve(r, served)
        \/ InsertReject(r)

\* record-route requests, one after another
NextCrud ==
    \E served \in BOOLEAN :
        \/ GetAll(served)
        \/ \E id \in IdInputs : GetById(id, served)
        \/ \E body \in Bodies : Create(body, served)
        \/ \E id \in IdInputs, body \in Patches : Put(id, body, served)
        \/ \E id \in IdInputs : DeleteById(id, served)

vars == <<rows, nextId, tvars, cvars, avars>>

InitRoute == Init /\ service.assemblyaiApiKey = Undefined

Spec == InitRoute /\ [][Next]_vars

InitCrud == Init /\ env = Str("dg-key") /\ service.assemblyaiApiKey = Undefined

\* one call of an adapter of the service
NextAdapter ==
    \/ CallDeepgram
    \/ \E data \in DeepgramData : DeepgramResolve(data)
    \/ \E message \in RequestErrors : DeepgramReject(message)
    \/ CallAssemblyAI
    \/ UploadResolve
    \/ SubmitResolve
    \/ \E data \in Pending \cup Terminal : StatusResolve(data)
    \/ PollAgain
    \/ \E message \in RequestErrors : AssemblyAIReject(message)

SpecAdapter == Init /\ [][NextAdapter]_vars

SpecCrud == InitCrud /\ [][NextCrud]_vars

(***************************************************************************)
(* Properties of the transcribe route (under Spec)                         *)
(***************************************************************************)
Answered(r) == tpc[r] = "done"

\* The reply of the provider held a first alternative.
FirstAlternative(r) ==
    /\ reply[r] # Undefined
    /\ "results" \in DOMAIN reply[r]
    /\ Truthy(reply[r].results)
    /\ Truthy(reply[r].results.channels)
    /\ Len(reply[r].results.channels.v) > 0
    /\ Truthy(reply[r].results.channels.v[1].alternatives)
    /\ Len(reply[r].results.channels.v[1].alternatives.v) > 0

Succeeded(r) == tres[r].status = 200 /\ tres[r].body.success

\* C1: once the provider returned a transcript, however the insert settles
\* (a row, an error value, a rejected call) the response is a success that
\* carries the transcription, with saved = true and a transcription_id
\* exactly when the insert gave a row, saved = false and no id otherwise.
C1_StoreFailureKeepsTranscription ==
    \A r \in Requests :
        (FirstAlternative(r) /\ settled[r] # "pending") =>
            /\ Succeeded(r)
            /\ tres[r].body.transcription = inflight[r].transcription
            /\ tres[r].body.saved = (settled[r] = "data")
            /\ (settled[r] = "data") =>
                   \E x \in rows : x.id = tres[r].body.transcription_id
            /\ (settled[r] # "data") => tres[r].body.transcription_id = Undefined

\* The file of request r passes the handler's checks and the key is there.
Valid(r) ==
    /\ file[r] # NoFile
    /\ file[r].size <= fileSize
    /\ fileExt(file[r]) \in allowedFormats
    /\ Truthy(env)

\* C2: a transcribe request issues at most one insert: exactly one once the
\* provider call succeeded with a first alternative, none while it has not,
\* and none when validation failed, the key is missing, the provider call
\* failed or the reply had no channels or alternatives.  When no insert
\* failed, the rows added are as many as the success responses.
C2_OneInsertPerTranscription ==
    /\ \A r \in Requests :
        /\ insertCalls[r] = IF FirstAlternative(r) THEN 1 ELSE 0
        /\ providerCalls[r] <= 1
        /\ (tpc[r] # "idle" /\ ~Valid(r)) =>
               (Answered(r) /\ providerCalls[r] = 0 /\ insertCalls[r] = 0)
        /\ insertCalls[r] = 1 => providerCalls[r] = 1
    /\ (\A r \in Requests : settled[r] \in {"pending", "data"}) =>
           Cardinality(rows) = Cardinality({r \in Requests : Answered(r) /\ Succeeded(r)})

\* Two requests in flight together were both answered with a saved row.
C2_Witness ==
    /\ \A r \in Requests : Answered(r) /\ Succeeded(r) /\ settled[r] = "data"
    /\ Cardinality(rows) = Cardinality(Requests)

\* The extension as the claim reads it: the lower-cased part after the last
\* dot, and none for a name without a dot.
HasDot(name) == \E i \in 1..Len(name) : name[i] = "."
ExtensionAllowed(name) == HasDot(name) /\ pop(split(toLowerCase(name), ".")) \in allowedFormats

\* C3: an upload whose extension is outside {wav, mp3, m4a, flac, ogg, webm}
\* is answered 400 by the handler, with no call to the provider and none to
\* the store, whether or not the key is configured.
C3_UnsupportedExtensionRejected ==
    \A r \in Requests :
        (/\ tpc[r] # "idle"
         /\ file[r] # NoFile
         /\ file[r].size <= fileSize
         /\ ~ExtensionAllowed(file[r].originalname)) =>
            /\ Answered(r)
            /\ tres[r].status = 400
            /\ providerCalls[r] = 0
            /\ insertCalls[r] = 0

GiB == 1024 * 1024 * 1024

\* C4: an upload larger than 1 GiB is answered 413 and no call to the
\* provider is made.
C4_OversizeRejected ==
    \A r \in Requests :
        (tpc[r] # "idle" /\ file[r] # NoFile /\ file[r].size > GiB) =>
            /\ Answered(r)
            /\ tres[r].status = 413
            /\ providerCalls[r] = 0
            /\ insertCalls[r] = 0

\* An upload of one byte more than 1 GiB was answered.
C4_Witness ==
    \E r \in Requests :
        Answered(r) /\ file[r] # NoFile /\ file[r].size = GiB + 1 /\ tres[r].status = 413

(***************************************************************************)
(* Properties of the record routes (under SpecCrud)                        *)
(***************************************************************************)
\* C5: for an id the table does not hold, GET /:id and PUT /:id answer 404
\* and PUT leaves the table as it was; for an id it holds, GET answers 200
\* with that row.
C5_AbsentIdIsNotFound ==
    [][/\ (req'.op \in {"GET", "PUT"} /\ req'.served /\ IsUuid(req'.id) /\ ~req'.present) =>
              (resp'.status = 404 /\ rows' = rows)
       /\ (req'.op = "GET" /\ req'.served /\ req'.present) =>
              (resp'.status = 200 /\ resp'.body \in rows /\ resp'.body.id = req'.id)]_vars

\* A submitted value as it is read back: an absent field comes back as null.
ReadBack(v) == IF v = Undefined THEN Null ELSE v

SameFields(body, row) == \A c \in ColumnNames : row[c] = ReadBack(body[c])

\* The body whose POST created the row GET /:id has just returned, if that
\* row was neither updated nor deleted since.
FetchedAfterCreate(body) ==
    /\ req.op = "GET"
    /\ resp.status = 200
    /\ <<req.id, body>> \in created

\* C6 as stated: whatever the values of file_size, file_type and
\* processing_time_ms, a record created by POST and then fetched by GET /:id
\* has the submitted filename, original_text, file_size, file_type and
\* processing_time_ms.
C6_RoundTripAnyValues ==
    \A body \in Bodies : FetchedAfterCreate(body) => SameFields(body, resp.body)

\* The optional fields have the types of their columns.
ColumnTyped(body) ==
    /\ body.file_size.k \in {"undefined", "null", "number"}
    /\ body.processing_time_ms.k \in {"undefined", "null", "number"}
    /\ body.file_type.k \in {"undefined", "null", "string"}

\* C6 as amended: a record created by POST from a body whose file_size and
\* processing_time_ms are each absent, null or an integer and whose file_type
\* is absent, null or a string, and then fetched by GET /:id, has the
\* submitted values, an absent field read back as null.
C6_RoundTripTyped ==
    \A body \in Bodies :
        (FetchedAfterCreate(body) /\ ColumnTyped(body)) => SameFields(body, resp.body)

\* GET returned a row created with every field given, and one created with
\* the optional fields absent.
C6_Witness ==
    \E body \in Bodies :
        /\ FetchedAfterCreate(body)
        /\ ColumnTyped(body)
        /\ body.file_size = Num(10240)
        /\ body.file_type = Str("audio/wav")
        /\ \E other \in Bodies : other.file_size = Undefined /\ \E id \in IdInputs :
               <<id, other>> \in created

\* C7: DELETE /:id answers 200 with the success message whenever the store
\* reports no error, whether or not the table holds the id; it removes the
\* row with that id and no other, so a second DELETE of the same id succeeds
\* too and leaves the table as the first left it.
C7_DeleteIdempotent ==
    [][(req'.op = "DELETE" /\ ~req'.error) =>
           /\ resp' = Json(200, [message |-> "Transcription deleted successfully"])
           /\ rows' = {x \in rows : x.id # req'.id}
           /\ ~req'.present => rows' = rows]_vars

\* An id the store had handed out, deleted before, was deleted again with
\* success while another row stayed.
C7_Witness ==
    /\ req.op = "DELETE"
    /\ ~req.error
    /\ ~req.present
    /\ IsUuid(req.id)
    /\ req.id[2] < nextId
    /\ resp.status = 200
    /\ rows # {}

(***************************************************************************)
(* Properties of SpeechToTextService (under SpecAdapter)                   *)
(***************************************************************************)
Status(d) == Get(d, "status")
IsTerminal(d) == Status(d) \in {Str("completed"), Str("error")}
Polls == 1..Len(statusLog)
Range(q) == {q[i] : i \in 1..Len(q)}

\* C8: the status is checked until the first response that is completed or
\* error and never again: when the k-th response is the first terminal one,
\* exactly k status checks were made, and on completed the call returns the
\* transcript of that k-th response.
C8_PollsUntilFirstTerminal ==
    /\ \A k \in Polls :
          (IsTerminal(statusLog[k]) /\ \A j \in 1..(k - 1) : ~IsTerminal(statusLog[j])) =>
              /\ Len(statusLog) = k
              /\ statusChecks = k
              /\ apc \in {"returned", "thrown"}
              /\ Status(statusLog[k]) = Str("completed") =>
                     /\ apc = "returned"
                     /\ outcome.ok
                     /\ outcome.value.text = Get(statusLog[k], "text")
    /\ (called = "assemblyai" /\ apc = "returned") =>
           (statusLog # <<>> /\ IsTerminal(statusLog[Len(statusLog)]))

\* The job was seen running, then completed: two status checks, and the
\* transcript of the second is returned.
C8_Witness ==
    /\ Len(statusLog) = 2
    /\ Status(statusLog[1]) = Str("processing")
    /\ Status(statusLog[2]) = Str("completed")
    /\ statusChecks = 2
    /\ apc = "returned"
    /\ outcome.value.text = Str("hello world")

\* C9: when a status check reports error the adapter stops polling and throws
\* an error whose message carries the provider's; it returns a result only
\* for a completed job, and a rejected upload, submission or status request
\* ends in a thrown error.
C9_FailedJobThrows ==
    called = "assemblyai" =>
        /\ (statusLog # <<>> /\ Status(statusLog[Len(statusLog)]) = Str("error")) =>
               /\ apc = "thrown"
               /\ ~outcome.ok
               /\ Text(Get(statusLog[Len(statusLog)], "error")) \in Range(outcome.message)
               /\ statusChecks = Len(statusLog)
        /\ apc = "returned" =>
               /\ outcome.ok
               /\ \A k \in Polls : Status(statusLog[k]) # Str("error")
               /\ statusLog # <<>> /\ Status(statusLog[Len(statusLog)]) = Str("completed")
        /\ rejected # "none" => (apc = "thrown" /\ ~outcome.ok)
        /\ apc = "thrown" => ~outcome.ok

\* After a pending status the job was reported failed, and the call threw.
C9_Witness ==
    /\ called = "assemblyai"
    /\ Len(statusLog) = 2
    /\ Status(statusLog[2]) = Str("error")
    /\ apc = "thrown"
    /\ "Download error" \in Range(outcome.message)

\* C10: a provider response without the transcript text never yields a
\* result, for either provider; a response with the text yields one, with a
\* null or empty default for every other field that is absent.
C10_MissingTextFails ==
    /\ apc = "returned" =>
           /\ outcome.value.text \notin {Undefined, Null}
           /\ outcome.value.words.k = "array"
           /\ outcome.value.utterances.k = "array"
           /\ outcome.value.language.k = "string"
           /\ outcome.value.duration.k \in {"number", "null"}
           /\ outcome.value.speaker_labels # Undefined
    /\ (called = "assemblyai" /\ statusLog # <<>>
          /\ Status(statusLog[Len(statusLog)]) = Str("completed")) =>
           IF Get(statusLog[Len(statusLog)], "text") = Undefined
           THEN apc = "thrown"
           ELSE apc = "returned"

(***************************************************************************)
(* Properties of the table (under SpecCrud and under Spec)                 *)
(***************************************************************************)
\* A string of at least one character.
NonEmpty(v) ==
    /\ v.k = "string"
    /\ IF "c" \in DOMAIN v THEN v.c # <<>> ELSE v.v # ""

RequiredTextNonEmpty ==
    \A x \in rows : NonEmpty(x.filename) /\ NonEmpty(x.original_text)

\* Every id in the table is one the store handed out, and no two rows share one.
StoreAssignedIds ==
    \A x \in rows :
        /\ \E n \in 1..(nextId - 1) : x.id = Uuid(n)
        /\ \A y \in rows : y.id = x.id => y = x

\* C11: after any sequence of create, update, delete and transcribe requests
\* every row of the table has a non-empty filename and a non-empty
\* original_text, and its id is the one the store assigned when the row was
\* created.
C11_RowsKeepRequiredText == RequiredTextNonEmpty /\ StoreAssignedIds

\* The row the insert of transcribe request r stored.
SavedRow(r) == CHOOSE x \in rows : x.id = tres[r].body.transcription_id

\* C12: the processing_time_ms the transcribe handler persists is the measured
\* duration of the provider call, from before the request is issued to after
\* its response is received: the stored value is at least the time the call
\* took.
C12_ProcessingTimeCoversCall ==
    \A r \in Requests :
        (tpc[r] = "done" /\ settled[r] = "data") =>
            SavedRow(r).processing_time_ms.v >= callTime[r]

====
